---- MODULE Spec2Model ----
(***************************************************************************)
(* Model of jina.peapods (the Pea and Pod factory functions) and of the    *)
(* server-sent-event generators of jina.logging.sse.                       *)
(*                                                                         *)
(* Spec       : one call of Pea or Pod on argument objects living in a     *)
(*              small heap of argparse.Namespace objects.                  *)
(* SpecStream : the generators _log_stream and _profile_stream reading     *)
(*              from their queues.                                         *)
(***************************************************************************)
EXTENDS Naturals, Sequences, FiniteSets

\* ---------------------------------------------------------------- bounds
MaxUnits == 3
MaxRoles == 2
MaxPut == 2

\* ------------------------------------------------------------- constants
\* jina.__default_host__
DefaultHost == "0.0.0.0"
Hosts == {DefaultHost, "10.0.0.2", "203.0.113.5"}
\* args.image: the empty string is falsy, a reference is truthy
NoImage == ""
Images == {NoImage, "img:v1"}
NoHost == "-"

\* an argparse.Namespace as far as Pea and Pod read it
Namespace == [host : Hosts, image : Images]

VARIABLES
    units,        \* heap of Namespace objects, addressed by index
    units0,       \* the heap as it was when the call was entered
    pc,           \* "ready" before the call, "returned" after it
    call,         \* the call made: function, argument, allow_remote
    result,       \* the handle returned, or the exception raised
    warnings,     \* default_logger.warning records of the call, in order
    constructed,  \* kinds of the handles constructed during the call
    queue,        \* per stream: messages waiting in the queue
    closed,       \* per stream: the upstream end of the queue is closed
    spc,          \* per stream: position of the generator
    out,          \* per stream: events yielded so far
    taken         \* per stream: messages get() has returned so far

vars == <<units, units0, pc, call, result, warnings, constructed,
          queue, closed, spc, out, taken>>
resolverVars == <<units, units0, pc, call, result, warnings, constructed>>
streamVars == <<queue, closed, spc, out, taken>>

\* ------------------------------------------------------------------ Pea
\* mutant of PeaGate: the warning is logged but the host is left as it was
PeaGate_WarnOnly(spec, u, allow_remote) ==
    IF ~allow_remote /\ spec.host # DefaultHost
    THEN [spec |-> spec, warned |-> <<[unit |-> u, host |-> DefaultHost]>>]
    ELSE [spec |-> spec, warned |-> <<>>]

\* lines 28-32: the host is set back to local and a warning is logged;
\* the f-string interpolates __default_host__
PeaGate(spec, u, allow_remote) ==
    IF ~allow_remote /\ spec.host # DefaultHost
    THEN [spec |-> [spec EXCEPT !.host = DefaultHost],
          warned |-> <<[unit |-> u, host |-> DefaultHost]>>]
    ELSE [spec |-> spec, warned |-> <<>>]

\* mutant of PeaDispatch: the image is tested before the host
PeaDispatch_ImageFirst(spec) ==
    IF spec.image # NoImage THEN "ContainerPea"
    ELSE IF spec.host # DefaultHost THEN "RemotePea"
    ELSE "BasePea"

\* lines 34-39
PeaDispatch(spec) ==
    IF spec.host # DefaultHost THEN "RemotePea"
    ELSE IF spec.image # NoImage THEN "ContainerPea"
    ELSE "BasePea"

\* the whole function on the heap hp for the object at index u
PeaFn(hp, u, allow_remote) ==
    LET g == PeaGate(hp[u], u, allow_remote)
        kind == PeaDispatch(g.spec)
    IN [units |-> [hp EXCEPT ![u] = g.spec],
        warnings |-> g.warned,
        result |-> [kind |-> kind, host |-> g.spec.host, members |-> <<>>],
        constructed |-> <<kind>>]

\* ------------------------------------------------------------------ Pod
\* a value of the args dict: None, one Namespace, or a list of Namespaces
RoleValue(kind, ids) == [kind |-> kind, ids |-> ids]

\* line 54: `if k:` -- None and the empty list are falsy
Truthy(k) == k.kind = "single" \/ (k.kind = "list" /\ k.ids # <<>>)

\* lines 55-56: a single Namespace is wrapped into a list
AsList(k) == k.ids

\* mutant of PodMemberGate: the host is left as it was
PodMemberGate_WarnOnly(spec, kk, allow_remote) ==
    IF ~allow_remote /\ spec.host # DefaultHost
    THEN [spec |-> spec, warned |-> <<[unit |-> kk, host |-> DefaultHost]>>]
    ELSE [spec |-> spec, warned |-> <<>>]

\* mutant of PodMemberGate: the host is not compared with the local host
PodMemberGate_WarnAlways(spec, kk, allow_remote) ==
    IF ~allow_remote
    THEN [spec |-> [spec EXCEPT !.host = DefaultHost],
          warned |-> <<[unit |-> kk, host |-> DefaultHost]>>]
    ELSE [spec |-> spec, warned |-> <<>>]

\* lines 58-60
PodMemberGate(spec, kk, allow_remote) ==
    IF ~allow_remote /\ spec.host # DefaultHost
    THEN [spec |-> [spec EXCEPT !.host = DefaultHost],
          warned |-> <<[unit |-> kk, host |-> DefaultHost]>>]
    ELSE [spec |-> spec, warned |-> <<>>]

\* lines 57-61: the inner loop over one value
RECURSIVE PodCollect(_, _, _)
PodCollect(ids, allow_remote, st) ==
    IF ids = <<>> THEN st
    ELSE LET kk == Head(ids)
             g == PodMemberGate(st.units[kk], kk, allow_remote)
         IN PodCollect(Tail(ids), allow_remote,
                [units |-> [st.units EXCEPT ![kk] = g.spec],
                 warnings |-> st.warnings \o g.warned,
                 hosts |-> st.hosts \cup {g.spec.host}])

\* lines 52-61: the outer loop over args.values()
RECURSIVE PodValues(_, _, _)
PodValues(vals, allow_remote, st) ==
    IF vals = <<>> THEN st
    ELSE LET k == Head(vals)
         IN IF Truthy(k)
            THEN PodValues(Tail(vals), allow_remote,
                           PodCollect(AsList(k), allow_remote, st))
            ELSE PodValues(Tail(vals), allow_remote, st)

\* the units of a group, flattened in iteration order
RECURSIVE Flatten(_)
Flatten(vals) ==
    IF vals = <<>> THEN <<>> ELSE Head(vals).ids \o Flatten(Tail(vals))

\* MutablePod(args): one member per unit, each resolved as Pea resolves it
MutablePodMembers(vals, hp) ==
    LET flat == Flatten(vals)
    IN [i \in 1..Len(flat) |-> PeaDispatch(hp[flat[i]])]

\* mutant of PodDictDispatch: a single host is taken to be the local one
PodDictDispatch_NoLocalTest(hosts) ==
    IF Cardinality(hosts) = 1 THEN "MutablePod" ELSE "fallthrough"

\* lines 63-68: the branch on the collected hosts; "fallthrough" when the
\* function goes on to line 70
PodDictDispatch(hosts) ==
    IF Cardinality(hosts) = 1
    THEN IF DefaultHost \in hosts THEN "MutablePod" ELSE "RemoteMutablePod"
    ELSE "fallthrough"

\* lines 70-78 reached with args a dict: args.host is evaluated on line 70
\* (allow_remote false) or on line 74 (allow_remote true); a dict has no
\* attribute host
PodDictFallthrough(allow_remote) == "AttributeError"

\* lines 51-78 for a dict
PodDictFn(hp, vals, allow_remote) ==
    LET st == PodValues(vals, allow_remote,
                        [units |-> hp, warnings |-> <<>>, hosts |-> {}])
        d == PodDictDispatch(st.hosts)
        kind == IF d = "fallthrough" THEN PodDictFallthrough(allow_remote) ELSE d
        members == IF kind = "MutablePod"
                   THEN MutablePodMembers(vals, st.units) ELSE <<>>
    IN [units |-> st.units,
        warnings |-> st.warnings,
        result |-> [kind |-> kind, host |-> NoHost, members |-> members],
        constructed |-> IF kind = "AttributeError" THEN <<>>
                        ELSE members \o <<kind>>]

\* mutant of PodGate: allow_remote is not consulted
PodGate_IgnoresPolicy(spec, u, allow_remote) ==
    IF spec.host # DefaultHost
    THEN [spec |-> [spec EXCEPT !.host = DefaultHost],
          warned |-> <<[unit |-> u, host |-> DefaultHost]>>]
    ELSE [spec |-> spec, warned |-> <<>>]

\* lines 70-72
PodGate(spec, u, allow_remote) ==
    IF ~allow_remote /\ spec.host # DefaultHost
    THEN [spec |-> [spec EXCEPT !.host = DefaultHost],
          warned |-> <<[unit |-> u, host |-> DefaultHost]>>]
    ELSE [spec |-> spec, warned |-> <<>>]

\* lines 74-78: the name RemotePod is bound nowhere in the module (line 11
\* imports RemotePea and RemoteMutablePod only), so line 75 raises NameError
PodDispatch(spec) ==
    IF spec.host # DefaultHost THEN "NameError" ELSE "BasePod"

\* lines 51, 70-78 for a Namespace
PodNamespaceFn(hp, u, allow_remote) ==
    LET g == PodGate(hp[u], u, allow_remote)
        kind == PodDispatch(g.spec)
    IN [units |-> [hp EXCEPT ![u] = g.spec],
        warnings |-> g.warned,
        result |-> [kind |-> kind, host |-> g.spec.host, members |-> <<>>],
        constructed |-> IF kind = "NameError" THEN <<>> ELSE <<kind>>]

\* ------------------------------------------------- the caller's arguments
\* the shape of a dict value: its kind and how many Namespaces it holds
ValueShapes ==
    {[kind |-> "none", n |-> 0], [kind |-> "single", n |-> 1]}
        \cup {[kind |-> "list", n |-> m] : m \in 0..MaxUnits}

RECURSIVE ShapeSum(_)
ShapeSum(s) == IF s = <<>> THEN 0 ELSE Head(s).n + ShapeSum(Tail(s))

\* dicts of at most MaxRoles roles holding n Namespaces in all
GroupShapes(n) ==
    {s \in UNION {[1..r -> ValueShapes] : r \in 0..MaxRoles} : ShapeSum(s) = n}

\* the dict of shape s over the heap objects 1..n, in order
GroupOf(s) ==
    [j \in 1..Len(s) |->
        RoleValue(s[j].kind,
                  [t \in 1..s[j].n |-> ShapeSum(SubSeq(s, 1, j - 1)) + t])]

NoCall == [fn |-> "none", isdict |-> FALSE, unit |-> 0, group |-> <<>>,
           allow_remote |-> TRUE]
NoResult == [kind |-> "none", host |-> NoHost, members |-> <<>>]

Heaps == UNION {[1..n -> Namespace] : n \in 0..MaxUnits}

\* --------------------------------------------------------------- streams
Streams == {"log", "profile"}
Msgs == {"m1", "m2"}

\* lines 120, 130
DataEvent(m) == <<"data: ", m, "\n\n">>

\* lines 122, 132
EndEvent(s) == IF s = "log" THEN <<"LOG ENDS\n\n">> ELSE <<"PROFILE ENDS\n\n">>

\* line 119, 129: queue.get() returns the oldest message, blocks while the
\* queue is empty and open, raises EOFError once it is empty and closed
GetOutcome(q, isClosed) ==
    IF q # <<>> THEN "message" ELSE IF isClosed THEN "EOFError" ELSE "blocked"

\* mutant of OnEOF: the break is missing
OnEOF_NoBreak(s) == [emit |-> <<EndEvent(s)>>, pc |-> "loop"]

\* lines 121-123, 131-133: the end marker is yielded, then the loop is left
OnEOF(s) == [emit |-> <<EndEvent(s)>>, pc |-> "ended"]

\* lines 119-120, 129-130: the message is yielded and the loop goes on
OnMessage(m) == [emit |-> <<DataEvent(m)>>, pc |-> "loop"]

\* one next() on the generator of stream s
StreamNext(s) ==
    \/ /\ spc[s] = "loop"
       /\ GetOutcome(queue[s], closed[s]) = "message"
       /\ LET m == Head(queue[s])
              r == OnMessage(m)
          IN /\ queue' = [queue EXCEPT ![s] = Tail(@)]
             /\ taken' = [taken EXCEPT ![s] = Append(@, m)]
             /\ out' = [out EXCEPT ![s] = @ \o r.emit]
             /\ spc' = [spc EXCEPT ![s] = r.pc]
       /\ UNCHANGED closed
    \/ /\ spc[s] = "loop"
       /\ GetOutcome(queue[s], closed[s]) = "EOFError"
       /\ LET r == OnEOF(s)
          IN /\ out' = [out EXCEPT ![s] = @ \o r.emit]
             /\ spc' = [spc EXCEPT ![s] = r.pc]
       /\ UNCHANGED <<queue, taken, closed>>
    \/ /\ spc[s] = "ended"
       /\ spc' = [spc EXCEPT ![s] = "done"]
       /\ UNCHANGED <<queue, taken, out, closed>>

\* lines 116-123
log_stream == StreamNext("log") /\ UNCHANGED resolverVars

\* lines 126-133
profile_stream == StreamNext("profile") /\ UNCHANGED resolverVars

\* a logger puts a message on the queue of stream s
Put ==
    /\ \E s \in Streams, m \in Msgs :
          /\ ~closed[s]
          /\ Len(taken[s]) + Len(queue[s]) < MaxPut
          /\ queue' = [queue EXCEPT ![s] = Append(@, m)]
    /\ UNCHANGED <<closed, spc, out, taken, resolverVars>>

\* the upstream end of the queue of stream s is closed
Close ==
    /\ \E s \in Streams :
          /\ ~closed[s]
          /\ closed' = [closed EXCEPT ![s] = TRUE]
    /\ UNCHANGED <<queue, spc, out, taken, resolverVars>>

\* ------------------------------------------------------------- resolver
Returned(c, r) ==
    /\ pc' = "returned"
    /\ call' = c
    /\ units' = r.units
    /\ warnings' = r.warnings
    /\ result' = r.result
    /\ constructed' = r.constructed
    /\ UNCHANGED <<units0, streamVars>>

\* lines 18-39
Pea ==
    /\ pc = "ready"
    /\ \E u \in 1..Len(units), allow_remote \in BOOLEAN :
          Returned([fn |-> "Pea", isdict |-> FALSE, unit |-> u,
                    group |-> <<>>, allow_remote |-> allow_remote],
                   PeaFn(units, u, allow_remote))

\* lines 42-78
Pod ==
    /\ pc = "ready"
    /\ \/ \E s \in GroupShapes(Len(units)), allow_remote \in BOOLEAN :
             Returned([fn |-> "Pod", isdict |-> TRUE, unit |-> 0,
                       group |-> GroupOf(s), allow_remote |-> allow_remote],
                      PodDictFn(units, GroupOf(s), allow_remote))
       \/ \E u \in 1..Len(units), allow_remote \in BOOLEAN :
             Returned([fn |-> "Pod", isdict |-> FALSE, unit |-> u,
                       group |-> <<>>, allow_remote |-> allow_remote],
                      PodNamespaceFn(units, u, allow_remote))

StreamIdle ==
    /\ queue = [s \in Streams |-> <<>>]
    /\ closed = [s \in Streams |-> FALSE]
    /\ spc = [s \in Streams |-> "loop"]
    /\ out = [s \in Streams |-> <<>>]
    /\ taken = [s \in Streams |-> <<>>]

Init ==
    /\ units \in Heaps
    /\ units0 = units
    /\ pc = "ready"
    /\ call = NoCall
    /\ result = NoResult
    /\ warnings = <<>>
    /\ constructed = <<>>
    /\ StreamIdle

Next == Pea \/ Pod

Spec == Init /\ [][Next]_vars

InitStream ==
    /\ units = <<>>
    /\ units0 = <<>>
    /\ pc = "ready"
    /\ call = NoCall
    /\ result = NoResult
    /\ warnings = <<>>
    /\ constructed = <<>>
    /\ StreamIdle

NextStream == Put \/ Close \/ log_stream \/ profile_stream

\* the response iterator keeps calling next() on a generator that can go on
SpecStream ==
    /\ InitStream
    /\ [][NextStream]_vars
    /\ WF_vars(log_stream)
    /\ WF_vars(profile_stream)

\* =============================================================== claims
IsPea == pc = "returned" /\ call.fn = "Pea"
IsPodDict == pc = "returned" /\ call.fn = "Pod" /\ call.isdict
IsPodNamespace == pc = "returned" /\ call.fn = "Pod" /\ ~call.isdict

\* the heap objects the call was given
Visited ==
    IF call.fn = "none" THEN {}
    ELSE IF call.isdict
         THEN {Flatten(call.group)[i] : i \in 1..Len(Flatten(call.group))}
         ELSE {call.unit}

\* the distinct hosts of the group's members after the policy gate
HostsAfterGate == {units[i].host : i \in Visited}

\* the objects whose host the policy gate had to rewrite
Rewritten == {i \in Visited : ~call.allow_remote /\ units0[i].host # DefaultHost}

WarningsOf(i) == {k \in 1..Len(warnings) : warnings[k].unit = i}

HandleKinds ==
    {"RemotePea", "ContainerPea", "BasePea", "MutablePod", "RemoteMutablePod",
     "BasePod", "RemotePod"}

\* C1: Pea with allow_remote=true returns exactly one handle, of the kind the
\* decision table gives: RemotePea bound to the spec's host when the host is
\* not local, whatever the image; else ContainerPea when an image is set;
\* else BasePea.
C1_PeaDecisionTable ==
    (IsPea /\ call.allow_remote) =>
        LET spec == units0[call.unit]
        IN /\ Len(constructed) = 1
           /\ constructed[1] = result.kind
           /\ spec.host # DefaultHost =>
                 result.kind = "RemotePea" /\ result.host = spec.host
           /\ (spec.host = DefaultHost /\ spec.image # NoImage) =>
                 result.kind = "ContainerPea"
           /\ (spec.host = DefaultHost /\ spec.image = NoImage) =>
                 result.kind = "BasePea"

C1_Witness ==
    /\ IsPea /\ call.allow_remote
    /\ units0[call.unit].host = "10.0.0.2"
    /\ units0[call.unit].image # NoImage
    /\ result.kind = "RemotePea" /\ result.host = "10.0.0.2"

\* C2: Pod on a dict whose members, after the policy gate, span two or more
\* distinct hosts returns a RemoteMutablePod and does not fail.
C2_MultiHostRemoteMutablePod ==
    (IsPodDict /\ Cardinality(HostsAfterGate) >= 2) =>
        result.kind = "RemoteMutablePod"

\* C3: Pod with allow_remote=true on a dict whose members all share one
\* non-local host returns one RemoteMutablePod for the whole group and
\* constructs no per-unit handle.
C3_SingleRemoteHost ==
    (/\ IsPodDict /\ call.allow_remote
     /\ Visited # {}
     /\ \E h \in Hosts \ {DefaultHost} : \A i \in Visited : units0[i].host = h)
        => /\ result.kind = "RemoteMutablePod"
           /\ constructed = <<"RemoteMutablePod">>

C3_Witness ==
    /\ IsPodDict /\ call.allow_remote
    /\ Len(call.group) = 2
    /\ call.group[1].kind = "list" /\ Len(call.group[1].ids) = 2
    /\ call.group[2].kind = "list" /\ Len(call.group[2].ids) = 1
    /\ \A i \in Visited : units0[i].host = "10.0.0.2"
    /\ result.kind = "RemoteMutablePod"

C5_GateIsPreLocalizing ==
    (IsPea /\ ~call.allow_remote) =>
        LET u == call.unit
            localized == [units0 EXCEPT ![u].host = DefaultHost]
        IN /\ result.kind = PeaFn(localized, u, TRUE).result.kind
           /\ result.kind # "RemotePea"
           /\ (units0[u].host # DefaultHost /\ units0[u].image # NoImage) =>
                 result.kind = "ContainerPea"

C5_Witness ==
    /\ IsPea /\ ~call.allow_remote
    /\ units0[call.unit].host # DefaultHost
    /\ units0[call.unit].image # NoImage
    /\ result.kind = "ContainerPea"

\* C6: Pod on a dict without members fails with a configuration error that
\* asks for at least one member, and returns no handle.
C6_EmptyGroupConfigurationError ==
    (IsPodDict /\ Visited = {}) =>
        result.kind = "ConfigurationError" /\ constructed = <<>>

PlacementOf(kind, spec) ==
    CASE kind \in {"RemotePea", "RemotePod"} -> "remote"
      [] kind = "ContainerPea" -> "container"
      [] kind = "BasePea" -> "local"
      [] kind = "BasePod" ->
            IF spec.image # NoImage THEN "container" ELSE "local"
      [] OTHER -> "error"

\* C8: Pod on a single Namespace classifies it as Pea does for the same
\* Namespace and allow_remote: remote for a non-local host, containerized
\* for a local host with an image, local otherwise.
C8_PodNamespaceAsPea ==
    IsPodNamespace =>
        LET u == call.unit
            pea == PeaFn(units0, u, call.allow_remote)
        IN PlacementOf(result.kind, units[u])
              = PlacementOf(pea.result.kind, pea.units[u])

\* C9 as stated: the Namespace objects passed in are the same after the
\* call as before it.
C9_SpecificationsUnchanged ==
    (pc = "returned") => units = units0

\* C9 amended: the call changes nothing of the Namespace objects but the
\* host of the visited objects with a non-local host when allow_remote is
\* false, which becomes the local host.
C9_OnlyGatedHostChanges ==
    (pc = "returned") =>
        /\ Len(units) = Len(units0)
        /\ \A i \in 1..Len(units0) :
              /\ units[i].image = units0[i].image
              /\ units[i].host =
                    IF i \in Rewritten THEN DefaultHost ELSE units0[i].host

C9_Witness ==
    /\ IsPodNamespace /\ ~call.allow_remote
    /\ Len(units0) = 2
    /\ units0[call.unit].host = "203.0.113.5"
    /\ units[call.unit].host = DefaultHost
    /\ units0[call.unit].image # NoImage
    /\ \E i \in 1..Len(units0) : i # call.unit /\ units0[i].host # DefaultHost

\* the events a stream has to have yielded
ExpectedOut(s) ==
    [k \in 1..Len(taken[s]) |-> DataEvent(taken[s][k])]
        \o (IF spc[s] = "loop" THEN <<>> ELSE <<EndEvent(s)>>)

\* C10: each message a stream took from its queue is emitted as one data
\* event, in the order taken; the stream ends only after the upstream close,
\* with one end marker and nothing after it; and once the queue is closed the
\* stream does end.
C10_StreamRelaysThenEnds ==
    /\ [](\A s \in Streams :
             /\ out[s] = ExpectedOut(s)
             /\ spc[s] # "loop" => closed[s])
    /\ \A s \in Streams : closed[s] ~> (spc[s] = "done")

C10_Witness ==
    /\ spc["log"] = "done"
    /\ taken["log"] = <<"m2", "m1">>
    /\ Len(out["log"]) = 3
    /\ spc["profile"] = "loop"
    /\ Len(out["profile"]) = 1

====
